---------------------------- MODULE Spec2Model ----------------------------
(***************************************************************************)
(* A model of the Smart Document Processing API: the upload / re-extract   *)
(* endpoints (app/api/endpoints.py), the processing pipeline               *)
(* (app/services/document_processor.py), file persistence and text         *)
(* extraction (app/utils/file_handlers.py), the OCR service                *)
(* (app/services/ocr_service.py) and the classifier / key-value extractor  *)
(* (app/services/ai_processor.py).                                         *)
(*                                                                         *)
(* Strings of the program (file names, paths, texts) are sequences of      *)
(* one-character strings, so that lower(), strip(), splitext(), the `in`   *)
(* substring test and the regular expressions are computed, not assumed.   *)
(*                                                                         *)
(* The handlers are coroutines that never suspend (save_file and           *)
(* extract_text contain no await of their own), so the event loop runs one *)
(* processing call at a time; the model has one call in flight and shows   *)
(* its intermediate positions through pc.                                  *)
(***************************************************************************)
EXTENDS Integers, Sequences, FiniteSets, TLC

VARIABLES
    fs,         \* the upload directory: path -> file content
    documents,  \* DocumentProcessor.documents: document id -> record
    pc,         \* position of the request in flight ("idle": none)
    call,       \* locals of the processing call in flight
    request,    \* the upload or re-extract request in flight, or the last one handled
    response,   \* the HTTP response to it, once it has returned
    nCalls      \* requests made to the upload and re-extract endpoints so far

vars == <<fs, documents, pc, call, request, response, nCalls>>

----------------------------------------------------------------------------
(* Bounds of the model *)

\* requests to the upload and re-extract endpoints in one run
MaxCalls == 2

----------------------------------------------------------------------------
(* Program constants *)

MAX_FILE_SIZE == 50 * 1024 * 1024

OCR_THRESHOLD == 50

SUMMARY_THRESHOLD == 500

MAX_SENTENCES == 3

ALLOWED_EXTENSIONS ==
    { <<".", "p", "d", "f">>, <<".", "d", "o", "c", "x">>, <<".", "t", "x", "t">>,
      <<".", "j", "p", "g">>, <<".", "j", "p", "e", "g">>, <<".", "p", "n", "g">>,
      <<".", "t", "i", "f", "f">>, <<".", "x", "l", "s", "x">>, <<".", "c", "s", "v">> }

UPLOAD_DIR == <<"u", "p", "l", "o", "a", "d", "s">>

DocumentType == {"invoice", "contract", "resume", "report", "receipt", "form", "other"}

ProcessingStatus == {"pending", "processing", "completed", "failed"}

\* Python's None and a value that may be None: <<>> or <<v>>
None == <<>>

Some(v) == <<v>>

----------------------------------------------------------------------------
(* Python string operations, on sequences of characters *)

UpperLetters ==
    <<"A", "B", "C", "D", "E", "F", "G", "H", "I", "J", "K", "L", "M",
      "N", "O", "P", "Q", "R", "S", "T", "U", "V", "W", "X", "Y", "Z">>

LowerLetters ==
    <<"a", "b", "c", "d", "e", "f", "g", "h", "i", "j", "k", "l", "m",
      "n", "o", "p", "q", "r", "s", "t", "u", "v", "w", "x", "y", "z">>

Digits == {"0", "1", "2", "3", "4", "5", "6", "7", "8", "9"}

Whitespace == {" ", "\n", "\t", "\r"}

\* the lower-case letter of every upper-case letter
LowerOf ==
    [c \in {UpperLetters[i] : i \in 1..26} |->
        LowerLetters[CHOOSE i \in 1..26 : UpperLetters[i] = c]]

\* str.lower() of one character
LowerChar(c) == IF c \in DOMAIN LowerOf THEN LowerOf[c] ELSE c

\* str.lower()
Lower(s) == [i \in 1..Len(s) |-> LowerChar(s[i])]

\* s[i:j] with 1-based inclusive bounds
Slice(s, i, j) == IF j < i THEN <<>> ELSE SubSeq(s, i, j)

\* str.strip(): the text without leading and trailing whitespace
Strip(s) ==
    LET first == CHOOSE i \in 1..(Len(s) + 1) :
                    /\ i = Len(s) + 1 \/ s[i] \notin Whitespace
                    /\ \A j \in 1..(i - 1) : s[j] \in Whitespace
        last  == CHOOSE i \in 0..Len(s) :
                    /\ i = 0 \/ s[i] \notin Whitespace
                    /\ \A j \in (i + 1)..Len(s) : s[j] \in Whitespace
    IN  Slice(s, first, last)

\* w occurs in s at position i
StartsAt(s, i, w) ==
    /\ i >= 1
    /\ i + Len(w) - 1 <= Len(s)
    /\ \A j \in 1..Len(w) : s[i + j - 1] = w[j]

\* w in s
Contains(s, w) == \E i \in 1..(Len(s) - Len(w) + 1) : StartsAt(s, i, w)

\* s.endswith(w)
EndsWith(s, w) == Len(w) <= Len(s) /\ StartsAt(s, Len(s) - Len(w) + 1, w)

\* str(n) for a natural number n
RECURSIVE ToStr(_)
ToStr(n) ==
    LET d == <<"0", "1", "2", "3", "4", "5", "6", "7", "8", "9">>
    IN  IF n < 10 THEN <<d[n + 1]>> ELSE ToStr(n \div 10) \o <<d[(n % 10) + 1]>>

\* "\n".join(parts)
RECURSIVE JoinLines(_)
JoinLines(parts) ==
    IF parts = <<>> THEN <<>>
    ELSE IF Len(parts) = 1 THEN parts[1]
    ELSE parts[1] \o <<"\n">> \o JoinLines(Tail(parts))

\* os.path.splitext(p): <<root, ext>>; the extension starts at the last dot of the
\* last path component, unless that component has only leading dots before it
SplitExt(p) ==
    LET base == 1 + CHOOSE i \in 0..Len(p) :
                       /\ i = 0 \/ p[i] = "/"
                       /\ \A j \in (i + 1)..Len(p) : p[j] # "/"
        dot  == CHOOSE i \in 0..Len(p) :
                   /\ i = 0 \/ (i >= base /\ p[i] = ".")
                   /\ \A j \in (i + 1)..Len(p) : j < base \/ p[j] # "."
    IN  IF dot = 0 \/ \A i \in base..dot : p[i] = "."
        THEN <<p, <<>>>>
        ELSE <<Slice(p, 1, dot - 1), Slice(p, dot, Len(p))>>

\* os.path.join(upload_dir, filename)
PathJoin(dir, filename) == dir \o <<"/">> \o filename


----------------------------------------------------------------------------
(* FileHandler.save_file: the path a file is stored under *)

\* the body of the while loop from `counter` on: the first name_counter.ext that is free
RECURSIVE NextFreePath(_, _, _)
NextFreePath(existing, filename, counter) ==
    LET split == SplitExt(filename)
        file_path == PathJoin(UPLOAD_DIR,
                              split[1] \o <<"_">> \o ToStr(counter) \o split[2])
    IN  IF file_path \in existing
        THEN NextFreePath(existing, filename, counter + 1)
        ELSE file_path

\* a mutant of SavePath: the declared name is used without the existence check
SavePathNoCheck(existing, filename) == PathJoin(UPLOAD_DIR, filename)

\* the path save_file writes to, given the paths that exist
SavePath(existing, filename) ==
    IF PathJoin(UPLOAD_DIR, filename) \in existing
    THEN NextFreePath(existing, filename, 1)
    ELSE PathJoin(UPLOAD_DIR, filename)

----------------------------------------------------------------------------
(* File contents.  kind says what the bytes are; text is the text a reader of that
   format gets (for an image: what the OCR engine reads off it); pages are a PDF's
   pages, each with its text layer and with what the OCR engine reads off its
   raster; size is the length in bytes. *)

FileContent(kind, size, text, pages) ==
    [kind |-> kind, size |-> size, text |-> text, pages |-> pages]

\* what open(path, "wb") leaves behind when the copy fails
TruncatedContent == FileContent("truncated", 0, <<>>, <<>>)

----------------------------------------------------------------------------
(* FileHandler.extract_text *)

\* PyPDF2: every page's text layer followed by a newline
RECURSIVE PdfPageText(_)
PdfPageText(pages) ==
    IF pages = <<>> THEN <<>>
    ELSE pages[1].native \o <<"\n">> \o PdfPageText(Tail(pages))

\* extract_text: dispatch on the lower-cased extension of the stored path; a reader
\* that raises (the bytes are not of its format) is caught and gives ""
ExtractText(file_path, content) ==
    LET ext == Lower(SplitExt(file_path)[2])
    IN  IF ext = <<".", "p", "d", "f">>
        THEN IF content.kind = "pdf" THEN PdfPageText(content.pages) ELSE <<>>
        ELSE IF ext \in {<<".", "d", "o", "c", "x">>, <<".", "d", "o", "c">>}
        THEN IF content.kind = "docx" THEN content.text ELSE <<>>
        ELSE IF ext \in {<<".", "x", "l", "s", "x">>, <<".", "x", "l", "s">>}
        THEN IF content.kind = "excel" THEN content.text ELSE <<>>
        ELSE IF ext = <<".", "c", "s", "v">>
        THEN IF content.kind = "csv" THEN content.text ELSE <<>>
        ELSE IF ext \in {<<".", "t", "x", "t">>, <<".", "m", "d">>}
        THEN IF content.kind = "text" THEN content.text ELSE <<>>
        ELSE <<>>

----------------------------------------------------------------------------
(* OCRService.  engineOk says whether the OCR engine works during this call.  A
   result is [raised, text or results, log]; log lists the engine's invocations as
   <<page, outcome>> (page 0: a stand-alone image). *)

\* extract_text_from_image: Image.open raises on bytes that are no image
OcrImage(content, page, engineOk) ==
    IF content.kind # "image"
    THEN [raised |-> TRUE, text |-> <<>>, log |-> <<>>]
    ELSE IF ~engineOk
    THEN [raised |-> TRUE, text |-> <<>>, log |-> << <<page, "fail">> >>]
    ELSE [raised |-> FALSE, text |-> Strip(content.text), log |-> << <<page, "ok">> >>]

\* the raster image of a PDF page
PageImage(page) == FileContent("image", 0, page.ocr, <<>>)

\* the pdf2image + OCR loop of the except branch, from image i on
RECURSIVE OcrPdfFallback(_, _, _, _, _)
OcrPdfFallback(pages, i, engineOk, results, log) ==
    IF i > Len(pages)
    THEN [raised |-> FALSE, results |-> results, log |-> log]
    ELSE LET o == OcrImage(PageImage(pages[i]), i, engineOk)
         IN  IF o.raised
             THEN [raised |-> TRUE, results |-> results, log |-> log \o o.log]
             ELSE OcrPdfFallback(pages, i + 1, engineOk,
                                 Append(results, <<i, o.text>>), log \o o.log)

\* the PyMuPDF loop of the try branch, from page p on; fitzFailAt is the page at
\* which PyMuPDF raises (0: it does not)
RECURSIVE OcrPdfNative(_, _, _, _, _, _)
OcrPdfNative(pages, p, fitzFailAt, engineOk, results, log) ==
    IF p > Len(pages)
    THEN [raised |-> FALSE, results |-> results, log |-> log]
    ELSE IF fitzFailAt = p
    THEN OcrPdfFallback(pages, 1, engineOk, results, log)
    ELSE IF Strip(pages[p].native) # <<>>
    THEN OcrPdfNative(pages, p + 1, fitzFailAt, engineOk,
                      Append(results, <<p, pages[p].native>>), log)
    ELSE LET o == OcrImage(PageImage(pages[p]), p, engineOk)
         IN  IF o.raised
             THEN OcrPdfFallback(pages, 1, engineOk, results, log \o o.log)
             ELSE OcrPdfNative(pages, p + 1, fitzFailAt, engineOk,
                               Append(results, <<p, o.text>>), log \o o.log)

\* extract_text_from_pdf: bytes that are no PDF make both libraries raise
OcrPdf(content, fitzFailAt, engineOk) ==
    IF content.kind # "pdf"
    THEN [raised |-> TRUE, results |-> <<>>, log |-> <<>>]
    ELSE OcrPdfNative(content.pages, 1, fitzFailAt, engineOk, <<>>, <<>>)


----------------------------------------------------------------------------
(* AIProcessor.classify_document.  Confidences are in hundredths. *)

InvoiceKeywords ==
    { <<"i", "n", "v", "o", "i", "c", "e">>,
      <<"b", "i", "l", "l">>,
      <<"t", "o", "t", "a", "l">>,
      <<"a", "m", "o", "u", "n", "t", " ", "d", "u", "e">> }

ContractKeywords ==
    { <<"c", "o", "n", "t", "r", "a", "c", "t">>,
      <<"a", "g", "r", "e", "e", "m", "e", "n", "t">>,
      <<"t", "e", "r", "m", "s", " ", "a", "n", "d", " ", "c", "o", "n", "d", "i", "t", "i", "o", "n", "s">> }

ResumeKeywords ==
    { <<"r", "e", "s", "u", "m", "e">>,
      <<"c", "v">>,
      <<"e", "x", "p", "e", "r", "i", "e", "n", "c", "e">>,
      <<"e", "d", "u", "c", "a", "t", "i", "o", "n">> }

ReceiptKeywords ==
    { <<"r", "e", "c", "e", "i", "p", "t">>,
      <<"p", "a", "y", "m", "e", "n", "t">>,
      <<"t", "h", "a", "n", "k", " ", "y", "o", "u", " ", "f", "o", "r", " ", "y", "o", "u", "r", " ", "p", "u", "r", "c", "h", "a", "s", "e">> }

\* any(keyword in text_lower for keyword in keywords)
AnyKeyword(text_lower, keywords) == \E w \in keywords : Contains(text_lower, w)

\* what the text-classification pipeline can do on a text: return one of the labels
\* of the sentiment model it loads, with a score, or raise
MlOutcomes ==
    { [ok |-> TRUE,  label |-> "POSITIVE", score |-> 99],
      [ok |-> TRUE,  label |-> "NEGATIVE", score |-> 75],
      [ok |-> FALSE, label |-> "",         score |-> 0] }

Classification(type, confidence) == [type |-> type, confidence |-> confidence]

\* a mutant of ClassifyDocument: the receipt rule is checked before the others
ClassifyDocumentReceiptFirst(text, ml) ==
    LET text_lower == Lower(text)
    IN  IF Strip(text) = <<>> THEN Classification("unknown", 0)
        ELSE IF AnyKeyword(text_lower, ReceiptKeywords) THEN Classification("receipt", 85)
        ELSE IF AnyKeyword(text_lower, InvoiceKeywords) THEN Classification("invoice", 90)
        ELSE IF AnyKeyword(text_lower, ContractKeywords) THEN Classification("contract", 85)
        ELSE IF AnyKeyword(text_lower, ResumeKeywords) THEN Classification("resume", 80)
        ELSE IF ml.ok THEN Classification(ml.label, ml.score)
        ELSE Classification("other", 50)

\* classify_document(text), ml being what the model does if it is asked
ClassifyDocument(text, ml) ==
    LET text_lower == Lower(text)
    IN  IF Strip(text) = <<>> THEN Classification("unknown", 0)
        ELSE IF AnyKeyword(text_lower, InvoiceKeywords) THEN Classification("invoice", 90)
        ELSE IF AnyKeyword(text_lower, ContractKeywords) THEN Classification("contract", 85)
        ELSE IF AnyKeyword(text_lower, ResumeKeywords) THEN Classification("resume", 80)
        ELSE IF AnyKeyword(text_lower, ReceiptKeywords) THEN Classification("receipt", 85)
        ELSE IF ml.ok THEN Classification(ml.label, ml.score)
        ELSE Classification("other", 50)

\* whether classify_document reaches the model fallback on this text
UsesModel(text) ==
    /\ Strip(text) # <<>>
    /\ ~AnyKeyword(Lower(text), InvoiceKeywords \cup ContractKeywords
                                \cup ResumeKeywords \cup ReceiptKeywords)

----------------------------------------------------------------------------
(* AIProcessor.extract_entities: the two taggers' outputs concatenated; a tagger
   that raises ends the extraction with what was collected before it. *)

SpacyEntity == [text |-> "spacy-entity", confidence |-> 90]

BertEntity == [text |-> "bert-entity", confidence |-> 95]

\* what the two taggers can do: "ok", "bert_raises", "spacy_raises"
NerOutcomes == {"ok", "bert_raises", "spacy_raises"}

ExtractEntities(text, ner) ==
    IF ner = "spacy_raises" THEN <<>>
    ELSE IF ner = "bert_raises" THEN <<SpacyEntity>>
    ELSE <<SpacyEntity, BertEntity>>

----------------------------------------------------------------------------
(* AIProcessor.extract_key_value_pairs: the four default patterns, matched with
   re.IGNORECASE; finditer's matches overwrite one another, so the last one stays. *)

RegexSpace == {" ", "\n", "\t", "\r"}

Currency == {"$", "€", "£"}

\* the characters of [A-Z0-9\-] under IGNORECASE
InvoiceChars ==
    Digits \cup {"-"} \cup {UpperLetters[i] : i \in 1..26} \cup {LowerLetters[i] : i \in 1..26}

\* how many characters from position i on are in `chars`, at most max
Run(s, i, chars, max) ==
    LET end == CHOOSE j \in i..(Len(s) + 1) :
                  /\ j = Len(s) + 1 \/ s[j] \notin chars
                  /\ \A k \in i..(j - 1) : s[k] \in chars
        n   == IF i > Len(s) THEN 0 ELSE end - i
    IN  IF n > max THEN max ELSE n

\* s[i] == c, false past the end
CharAt(s, i, chars) == i >= 1 /\ i <= Len(s) /\ s[i] \in chars

\* \d{1,2}[/-]\d{1,2}[/-]\d{2,4} at i: the position after the match, 0 if none
MatchDate(s, i) ==
    LET a  == Run(s, i, Digits, 2)
        i2 == i + a
        b  == Run(s, i2 + 1, Digits, 2)
        i3 == i2 + 1 + b
        c  == Run(s, i3 + 1, Digits, 4)
    IN  IF /\ a >= 1 /\ CharAt(s, i2, {"/", "-"})
           /\ b >= 1 /\ CharAt(s, i3, {"/", "-"})
           /\ c >= 2
        THEN i3 + 1 + c
        ELSE 0

\* [:\s]*[\$€£]?\s*[\d,]+\.?\d* at j: the position after the match, 0 if none
MatchAmountTail(s, j) ==
    LET j2 == j + Run(s, j, RegexSpace \cup {":"}, Len(s))
        j3 == IF CharAt(s, j2, Currency) THEN j2 + 1 ELSE j2
        j4 == j3 + Run(s, j3, RegexSpace, Len(s))
        n  == Run(s, j4, Digits \cup {","}, Len(s))
        j5 == j4 + n
        j6 == IF CharAt(s, j5, {"."}) THEN j5 + 1 ELSE j5
    IN  IF n >= 1 THEN j6 + Run(s, j6, Digits, Len(s)) ELSE 0

\* (?:w1|w2|w3)<amount tail> at i, lo being s in lower case (IGNORECASE); the words
\* of a pattern start with different letters, so at most one of them is at i
MatchAmount(s, lo, i, words) ==
    LET here == {w \in words : StartsAt(lo, i, w)}
    IN  IF here = {} THEN 0
        ELSE MatchAmountTail(s, i + Len(CHOOSE w \in here : TRUE))

\* \.?\s*#?\s*[A-Z0-9\-]+ at j: the position after the match, 0 if none
MatchInvoiceTail(s, j) ==
    LET j2 == IF CharAt(s, j, {"."}) THEN j + 1 ELSE j
        j3 == j2 + Run(s, j2, RegexSpace, Len(s))
        j4 == IF CharAt(s, j3, {"#"}) THEN j3 + 1 ELSE j3
        j5 == j4 + Run(s, j4, RegexSpace, Len(s))
        n  == Run(s, j5, InvoiceChars, Len(s))
    IN  IF n >= 1 THEN j5 + n ELSE 0

\* (?:invoice|inv)<invoice tail> at i: "invoice" is tried first, then "inv"
MatchInvoice(s, lo, i) ==
    LET long  == IF StartsAt(lo, i, <<"i", "n", "v", "o", "i", "c", "e">>)
                 THEN MatchInvoiceTail(s, i + 7) ELSE 0
        short == IF StartsAt(lo, i, <<"i", "n", "v">>)
                 THEN MatchInvoiceTail(s, i + 3) ELSE 0
    IN  IF long # 0 THEN long ELSE short

TotalWords ==
    { <<"t", "o", "t", "a", "l">>,
      <<"a", "m", "o", "u", "n", "t", " ", "d", "u", "e">>,
      <<"b", "a", "l", "a", "n", "c", "e">> }

TaxWords ==
    { <<"t", "a", "x">>,
      <<"v", "a", "t">>,
      <<"g", "s", "t">> }

KeyValueKeys == {"date", "total", "invoice_number", "tax"}

\* the pattern of `key` at position i: the position after the match, 0 if none
MatchAt(key, s, lo, i) ==
    CASE key = "date"           -> MatchDate(s, i)
      [] key = "total"          -> MatchAmount(s, lo, i, TotalWords)
      [] key = "invoice_number" -> MatchInvoice(s, lo, i)
      [] key = "tax"            -> MatchAmount(s, lo, i, TaxWords)

\* the positions of s at which the pattern of `key` matches
MatchStarts(key, s, lo) == {i \in 1..Len(s) : MatchAt(key, s, lo, i) # 0}

\* re.finditer from position i on, `starts` being the positions at which the pattern
\* matches: the scan goes to the first of them, takes the match and goes on after
\* it; the last match's text (as Some), `last` if there is none
RECURSIVE LastMatch(_, _, _, _, _, _)
LastMatch(key, s, lo, starts, i, last) ==
    LET rest == {j \in starts : j >= i}
    IN  IF rest = {} THEN last
        ELSE LET m == CHOOSE j \in rest : \A k \in rest : j <= k
                 e == MatchAt(key, s, lo, m)
             IN  LastMatch(key, s, lo, starts, e, Some(Slice(s, m, e - 1)))

\* for match in re.finditer(pattern, text, re.IGNORECASE): kv_pairs[key] = match.group()
LastMatchOf(key, text, lo) ==
    CHOOSE r \in {LastMatch(key, text, lo, starts, 1, None) :
                     starts \in {MatchStarts(key, text, lo)}} : TRUE

\* extract_key_value_pairs(text): a dict with the keys whose pattern matched
ExtractKeyValuePairs(text) ==
    LET lo == Lower(text)
        matches == [k \in KeyValueKeys |-> LastMatchOf(k, text, lo)]
        found == {k \in KeyValueKeys : matches[k] # None}
    IN  [k \in found |-> matches[k][1]]

----------------------------------------------------------------------------
(* AIProcessor.summarize_text.  The sentence tokenizer splits after a ., ! or ?
   that is followed by whitespace, and drops the whitespace between sentences. *)

SentenceEnd == {".", "!", "?"}

\* the sentences of s from position i on, the current sentence starting at `from`:
\* it ends at the first sentence end from i on, or with the text
RECURSIVE SentTokenize(_, _, _)
SentTokenize(s, from, i) ==
    LET ends == {j \in i..(Len(s) - 1) : s[j] \in SentenceEnd /\ s[j + 1] \in Whitespace}
    IN  IF from > Len(s) THEN <<>>
        ELSE IF ends = {} THEN <<Slice(s, from, Len(s))>>
        ELSE LET end  == CHOOSE j \in ends : \A k \in ends : j <= k
                 next == end + 1 + Run(s, end + 1, Whitespace, Len(s))
             IN  <<Slice(s, from, end)>> \o SentTokenize(s, next, next)

\* ' '.join(parts)
RECURSIVE JoinSpaces(_)
JoinSpaces(parts) ==
    IF parts = <<>> THEN <<>>
    ELSE IF Len(parts) = 1 THEN parts[1]
    ELSE parts[1] \o <<" ">> \o JoinSpaces(Tail(parts))

\* a mutant of SummarizeText: a text of exactly max_sentences sentences is cut too
SummarizeTextCutsAtLimit(text, max_sentences) ==
    LET sentences == SentTokenize(Strip(text), 1, 1)
    IN  IF Len(sentences) < max_sentences THEN text
        ELSE JoinSpaces(SubSeq(sentences, 1, max_sentences))

\* summarize_text(text, max_sentences)
SummarizeText(text, max_sentences) ==
    LET sentences == SentTokenize(Strip(text), 1, 1)
    IN  IF Len(sentences) <= max_sentences THEN text
        ELSE JoinSpaces(SubSeq(sentences, 1, max_sentences))


----------------------------------------------------------------------------
(* The requests of the model: texts, files and flags *)

\* a short note padded with blanks: 55 characters, 8 after strip()
PaddedText ==
    <<" ", " ", "H", "i", " ", "t", "h", "e", "r", "e", " ", " ", " ", " ", " ", " ",
      " ", " ", " ", " ", " ", " ", " ", " ", " ", " ", " ", " ", " ", " ", " ", " ",
      " ", " ", " ", " ", " ", " ", " ", " ", " ", " ", " ", " ", " ", " ", " ", " ",
      " ", " ", " ", " ", " ", " ", " ">>

\* matches the invoice, contract and receipt rules
InvoiceText ==
    <<"I", "N", "V", "O", "I", "C", "E", " ", "#", "A", "-", "1", "7", " ", "o", "f",
      " ", "0", "3", "/", "0", "4", "/", "2", "0", "2", "4", ":", " ", "c", "o", "n",
      "t", "r", "a", "c", "t", " ", "r", "e", "c", "e", "i", "p", "t", ".", " ", "T",
      "o", "t", "a", "l", ":", " ", "$", "1", ",", "2", "5", "0", ".", "5", "0", " ",
      "T", "a", "x", ":", " ", "9", "9">>

\* matches the resume and receipt rules
ResumeText ==
    <<"M", "y", " ", "e", "x", "p", "e", "r", "i", "e", "n", "c", "e", " ", "a", "n",
      "d", " ", "e", "d", "u", "c", "a", "t", "i", "o", "n", " ", "a", "r", "e", " ",
      "l", "i", "s", "t", "e", "d", ";", " ", "t", "h", "a", "n", "k", " ", "y", "o",
      "u", " ", "f", "o", "r", " ", "y", "o", "u", "r", " ", "p", "a", "y", "m", "e",
      "n", "t", ".">>

\* what the OCR engine reads off the scanned receipt; matches the receipt rule only
ReceiptScan ==
    <<"R", "e", "c", "e", "i", "p", "t", " ", "-", " ", "p", "a", "y", "m", "e", "n",
      "t", " ", "o", "n", " ", "1", "2", "-", "1", "1", "-", "2", "3", ",", " ", "b",
      "a", "l", "a", "n", "c", "e", " ", "4", "0", ".", "0", "0", ",", " ", "V", "A",
      "T", " ", "8", ",", " ", "k", "e", "e", "p", " ", "t", "h", "i", "s", " ", "s",
      "l", "i", "p", ".", "\n">>

\* matches no rule
MinutesText ==
    <<"M", "i", "n", "u", "t", "e", "s", " ", "o", "f", " ", "t", "h", "e", " ", "w",
      "e", "e", "k", "l", "y", " ", "m", "e", "e", "t", "i", "n", "g", " ", "h", "e",
      "l", "d", " ", "o", "n", " ", "M", "o", "n", "d", "a", "y", " ", "m", "o", "r",
      "n", "i", "n", "g", " ", "a", "t", " ", "t", "h", "e", " ", "o", "f", "f", "i",
      "c", "e", ".">>

\* what the OCR engine reads off the PDF's scanned page
ScannedPage ==
    <<" ", "P", "a", "g", "e", " ", "t", "w", "o", " ", "w", "a", "s", " ", "s", "c",
      "a", "n", "n", "e", "d", ".", "\n">>

\* a PDF of two pages: the first has a text layer, the second is a scan
MinutesPdf ==
    FileContent("pdf", 2048, <<>>,
                << [native |-> MinutesText, ocr |-> MinutesText],
                   [native |-> <<>>,        ocr |-> ScannedPage] >>)

Upload(filename, content) == [filename |-> filename, content |-> content]

\* the uploads a client sends: file name and file
Uploads ==
    { Upload(<<"a", ".", "t", "x", "t">>, FileContent("text", Len(PaddedText), PaddedText, <<>>)),
      Upload(<<"a", ".", "t", "x", "t">>, FileContent("text", Len(InvoiceText), InvoiceText, <<>>)),
      Upload(<<"s", "c", "a", "n", ".", "P", "N", "G">>, FileContent("image", MAX_FILE_SIZE, ReceiptScan, <<>>)),
      Upload(<<"d", ".", "p", "d", "f">>, MinutesPdf),
      Upload(<<"a", ".", "t", "x", "t">>, FileContent("text", MAX_FILE_SIZE + 1, InvoiceText, <<>>)),
      Upload(<<"r", "u", "n", ".", "e", "x", "e">>, FileContent("binary", 512, <<>>, <<>>)),
      Upload(<<"n", "o", "t", "e", "s", ".", "m", "d">>, FileContent("text", Len(ResumeText), ResumeText, <<>>)) }

\* the four boolean parameters of a processing call
Flags ==
    [extract_text : BOOLEAN, perform_ocr : BOOLEAN,
     extract_entities : BOOLEAN, classify_document : BOOLEAN]

\* uuid4(): document ids are fresh; the model numbers them in order of creation
NewDocumentId == Cardinality(DOMAIN documents) + 1

\* the ids a client asks for: those that can exist, and one that never does
RequestIds == 1..(MaxCalls + 1)

\* the upload directory outlives the process: a file left in it by an earlier run
StaleFile == FileContent("text", Len(ResumeText), ResumeText, <<>>)

StalePath == PathJoin(UPLOAD_DIR, <<"a", "_", "1", ".", "t", "x", "t">>)

----------------------------------------------------------------------------
(* State *)

\* results as process_document initialises it (lines 57-66)
InitResults(document_id) ==
    [document_id |-> document_id, text_content |-> None, entities |-> None,
     document_type |-> None, confidence |-> None, pages |-> <<>>,
     key_value_pairs |-> [k \in {} |-> <<>>], summary |-> None]

\* the locals of a processing call: the endpoint that made it and the id it was
\* asked about, process_document's parameters and locals, the OCR service's
\* invocations (ocr_calls) and the OCR engine's (ocr_log), and the exception raised
NoCall ==
    [endpoint |-> "", request_id |-> 0, filename |-> <<>>,
     flags |-> [extract_text |-> FALSE, perform_ocr |-> FALSE,
                extract_entities |-> FALSE, classify_document |-> FALSE],
     document_id |-> 0, file_path |-> <<>>, results |-> InitResults(0),
     ocr_calls |-> <<>>, ocr_log |-> <<>>, error |-> None]

NewCall(endpoint, request_id, filename, flags) ==
    [NoCall EXCEPT !.endpoint = endpoint, !.request_id = request_id,
                   !.filename = filename, !.flags = flags]

\* a request: the endpoint, the uploaded file's name and size, the id asked for,
\* and the text of a raw-text request
Request(endpoint, filename, size, document_id) ==
    [endpoint |-> endpoint, filename |-> filename, size |-> size,
     document_id |-> document_id, text |-> None]

NoRequest == Request("", <<>>, 0, 0)

\* a response: the status code, the detail of an error, the document id of the
\* body, and the body of a raw-text endpoint
Response(endpoint, code, detail, document_id) ==
    [endpoint |-> endpoint, code |-> code, detail |-> detail,
     document_id |-> document_id, body |-> None]

NoResponse == Response("", 0, "", 0)

\* f with x mapped to v (a dict assignment d[x] = v)
Put(f, x, v) == [y \in DOMAIN f \cup {x} |-> IF y = x THEN v ELSE f[y]]

EmptyMap == [x \in {} |-> <<>>]

Init ==
    /\ fs = Put(EmptyMap, StalePath, StaleFile)
    /\ documents = EmptyMap
    /\ pc = "idle"
    /\ call = NoCall
    /\ request = NoRequest
    /\ response = NoResponse
    /\ nCalls = 0



----------------------------------------------------------------------------
(* DocumentProcessor.process_document, lines 36-54: the file is saved and the
   record stored *)

\* a mutant of NewDocument: the record is stored as pending
NewDocumentPending(document_id, filename, file_path, file_size) ==
    [id |-> document_id, filename |-> filename, file_path |-> file_path,
     file_size |-> file_size, processing_status |-> "pending",
     document_type |-> None,
     metadata |-> [error |-> None]]

\* the record process_document stores before it processes (lines 44-52); of the
\* metadata the model keeps the error (not the timing, the page count and the copy
\* of the flags, which nothing reads)
NewDocument(document_id, filename, file_path, file_size) ==
    [id |-> document_id, filename |-> filename, file_path |-> file_path,
     file_size |-> file_size, processing_status |-> "processing",
     document_type |-> None,
     metadata |-> [error |-> None]]

\* what writing the file can do: succeed, fail before the file is created, or fail
\* during the copy, after open(file_path, "wb") created it
SaveOutcomes == {"ok", "open_raises", "copy_raises"}

\* process_document up to line 54, called by `endpoint` with `file` and any flags; an
\* exception of save_file leaves the function before the record exists and before
\* the try
BeginProcessing(endpoint, request_id, filename, file, outcome) ==
    LET file_path == SavePath(DOMAIN fs, filename)
        document_id == NewDocumentId
        error == IF endpoint = "upload"
                 THEN Response("upload", 500, "Processing failed", 0)
                 ELSE Response("extract", 500, "Internal Server Error", 0)
    IN  CASE outcome = "ok" ->
               /\ fs' = Put(fs, file_path, file)
               /\ documents' = Put(documents, document_id,
                                   NewDocument(document_id, filename,
                                               file_path, file.size))
               /\ \E f \in Flags :
                     call' = [NewCall(endpoint, request_id, filename, f) EXCEPT
                                 !.document_id = document_id,
                                 !.file_path = file_path,
                                 !.results = InitResults(document_id)]
               /\ pc' = "process"
               /\ response' = NoResponse
          [] outcome = "open_raises" ->
               /\ response' = error
               /\ UNCHANGED <<fs, documents, call, pc>>
          [] outcome = "copy_raises" ->
               /\ fs' = Put(fs, file_path, TruncatedContent)
               /\ response' = error
               /\ UNCHANGED <<documents, call, pc>>

----------------------------------------------------------------------------
(* The upload and re-extract endpoints, up to the try block of process_document *)

\* a mutant of TypeRejected: the validation of the extension is left out
TypeNeverRejected(filename) == FALSE

\* file_ext not in settings.ALLOWED_EXTENSIONS, file_ext in lower case
TypeRejected(filename) == Lower(SplitExt(filename)[2]) \notin ALLOWED_EXTENSIONS

\* a mutant of SizeRejected: the limit itself is refused too
SizeRejectedAtLimit(file_size) == file_size >= MAX_FILE_SIZE

\* file_size > settings.MAX_FILE_SIZE
SizeRejected(file_size) == file_size > MAX_FILE_SIZE

\* POST /upload: validation, then the processing call
UploadDocument(u, outcome) ==
    /\ pc = "idle"
    /\ nCalls < MaxCalls
    /\ nCalls' = nCalls + 1
    /\ request' = Request("upload", u.filename, u.content.size, 0)
    /\ IF TypeRejected(u.filename)
       THEN /\ response' = Response("upload", 400, "File type not allowed", 0)
            /\ UNCHANGED <<fs, documents, pc, call>>
       ELSE IF SizeRejected(u.content.size)
       THEN /\ response' = Response("upload", 400, "File too large", 0)
            /\ UNCHANGED <<fs, documents, pc, call>>
       ELSE BeginProcessing("upload", 0, u.filename, u.content, outcome)

\* POST /extract: the stored file of the document is opened and processed again
ExtractFromDocument(d, outcome) ==
    /\ pc = "idle"
    /\ nCalls < MaxCalls
    /\ nCalls' = nCalls + 1
    /\ request' = Request("extract", <<>>, 0, d)
    /\ IF d \notin DOMAIN documents
       THEN /\ response' = Response("extract", 404, "Document not found", d)
            /\ UNCHANGED <<fs, documents, pc, call>>
       ELSE /\ documents[d].file_path \in DOMAIN fs
            /\ BeginProcessing("extract", d, documents[d].filename,
                               fs[documents[d].file_path], outcome)


----------------------------------------------------------------------------
(* DocumentProcessor.process_document, lines 56-109: the stages of the try block,
   each a function of the call's locals c.  A stage that raises sets c.error. *)

\* a Python truth test of an optional string: neither None nor ""
Truthy(text) == text # None /\ text[1] # <<>>

\* lines 69-71: text extraction by file type
ExtractStage(c, content) ==
    IF c.flags.extract_text
    THEN [c EXCEPT !.results.text_content = Some(ExtractText(c.file_path, content))]
    ELSE c

\* a mutant of OcrTriggered: the OCR test stands outside `if extract_text:`
OcrTriggeredOutsideExtract(c) ==
    \/ c.flags.perform_ocr
    \/ /\ c.flags.extract_text
       /\ Len(Strip(c.results.text_content[1])) < OCR_THRESHOLD

\* the conditions under which lines 75-88 run: inside `if extract_text:` (line 69),
\* perform_ocr or (len(text_content.strip()) < 50 and extract_text) (line 74)
OcrTriggered(c) ==
    /\ c.flags.extract_text
    /\ \/ c.flags.perform_ocr
       \/ /\ Len(Strip(c.results.text_content[1])) < OCR_THRESHOLD
          /\ c.flags.extract_text

\* filename.lower().endswith('.pdf')
IsPdfName(filename) == EndsWith(Lower(filename), <<".", "p", "d", "f">>)

\* [{"page_number": page_num, "text": text} for page_num, text in pages]
PageDicts(pages) ==
    [i \in 1..Len(pages) |-> [page_number |-> pages[i][1], text |-> pages[i][2]]]

\* [text for _, text in pages]
PageTexts(pages) == [i \in 1..Len(pages) |-> pages[i][2]]

\* lines 74-88: OCR of the stored file, by the PDF path or by the image path
OcrStage(c, content, fitzFailAt, engineOk) ==
    IF ~OcrTriggered(c) THEN c
    ELSE IF IsPdfName(c.filename)
    THEN LET o == OcrPdf(content, fitzFailAt, engineOk)
         IN  IF o.raised
             THEN [c EXCEPT !.ocr_calls = Append(@, "pdf"),
                            !.ocr_log = @ \o o.log,
                            !.error = Some("ocr failed")]
             ELSE [c EXCEPT !.ocr_calls = Append(@, "pdf"),
                            !.ocr_log = @ \o o.log,
                            !.results.pages = PageDicts(o.results),
                            !.results.text_content = Some(JoinLines(PageTexts(o.results)))]
    ELSE LET o == OcrImage(content, 0, engineOk)
         IN  IF o.raised
             THEN [c EXCEPT !.ocr_calls = Append(@, "image"),
                            !.ocr_log = @ \o o.log,
                            !.error = Some("ocr failed")]
             ELSE [c EXCEPT !.ocr_calls = Append(@, "image"),
                            !.ocr_log = @ \o o.log,
                            !.results.text_content = Some(o.text)]

\* lines 91-95: classification of a non-empty text
ClassifyStage(c, ml) ==
    IF c.flags.classify_document /\ Truthy(c.results.text_content)
    THEN LET classification == ClassifyDocument(c.results.text_content[1], ml)
         IN  [c EXCEPT !.results.document_type = Some(classification.type),
                       !.results.confidence = Some(classification.confidence)]
    ELSE c

\* results["document_type"] in ["invoice", "receipt", "form"] (line 103)
IsStructuredType(document_type) ==
    document_type # None /\ document_type[1] \in {"invoice", "receipt", "form"}

\* a mutant of EntitiesStage: key-value pairs are extracted whatever the type is
EntitiesStageAnyType(c, ner) ==
    IF c.flags.extract_entities /\ Truthy(c.results.text_content)
    THEN [c EXCEPT
            !.results.entities = Some(ExtractEntities(c.results.text_content[1], ner)),
            !.results.key_value_pairs = ExtractKeyValuePairs(c.results.text_content[1])]
    ELSE c

\* lines 98-105: entities of a non-empty text, and inside that the key-value pairs
\* of a structured document
EntitiesStage(c, ner) ==
    IF c.flags.extract_entities /\ Truthy(c.results.text_content)
    THEN [c EXCEPT
            !.results.entities = Some(ExtractEntities(c.results.text_content[1], ner)),
            !.results.key_value_pairs =
                IF IsStructuredType(c.results.document_type)
                THEN ExtractKeyValuePairs(c.results.text_content[1])
                ELSE @]
    ELSE c

\* line 108: the text is long enough to be summarised
SummaryTriggered(c) ==
    /\ Truthy(c.results.text_content)
    /\ Len(c.results.text_content[1]) > SUMMARY_THRESHOLD

\* lines 108-109: the summary of a long text; the tokenizer may raise
SummaryStage(c, tokenizerOk) ==
    IF ~SummaryTriggered(c) THEN c
    ELSE IF tokenizerOk
    THEN [c EXCEPT !.results.summary =
                       Some(SummarizeText(c.results.text_content[1], MAX_SENTENCES))]
    ELSE [c EXCEPT !.error = Some("summary failed")]

----------------------------------------------------------------------------
(* What the libraries can do during one call, where the call reaches them *)

\* the pages at which PyMuPDF can raise (0: none), and whether the OCR engine works
OcrEnvs(c, content) ==
    IF ~OcrTriggered(c) THEN {<<0, TRUE>>}
    ELSE IF IsPdfName(c.filename) /\ content.kind = "pdf"
    THEN (0..Len(content.pages)) \X BOOLEAN
    ELSE {0} \X BOOLEAN

MlEnvs(c) ==
    IF /\ c.flags.classify_document
       /\ Truthy(c.results.text_content)
       /\ UsesModel(c.results.text_content[1])
    THEN MlOutcomes
    ELSE {CHOOSE ml \in MlOutcomes : ~ml.ok}

NerEnvs(c) ==
    IF c.flags.extract_entities /\ Truthy(c.results.text_content)
    THEN NerOutcomes
    ELSE {"ok"}

TokenizerEnvs(c) == IF SummaryTriggered(c) THEN BOOLEAN ELSE {TRUE}

----------------------------------------------------------------------------
(* DocumentProcessor.process_document, lines 56-134: the try block *)

\* a mutant of FinishedDocument: the except branch does not touch the record
FinishedDocumentNoFail(doc, c) ==
    IF c.error = None
    THEN [doc EXCEPT !.processing_status = "completed",
                     !.document_type = c.results.document_type]
    ELSE doc

\* the record when the try block ends with locals c: completed (line 116), or
\* failed with the error (lines 132-133); document_type is set by the
\* classification stage if it ran (line 95)
FinishedDocument(doc, c) ==
    IF c.error = None
    THEN [doc EXCEPT !.processing_status = "completed",
                     !.document_type = c.results.document_type]
    ELSE [doc EXCEPT !.processing_status = "failed",
                     !.document_type = c.results.document_type,
                     !.metadata.error = c.error]

\* the try block ends with locals c: by return (line 128) or by raise (line 134)
Finish(c) ==
    /\ call' = c
    /\ documents' = [documents EXCEPT
                       ![c.document_id] = FinishedDocument(documents[c.document_id], c)]
    /\ pc' = IF c.error = None THEN "return" ELSE "raise"

\* the stages in order; each stage's outcome is drawn from what its libraries can do
ProcessDocument ==
    /\ pc = "process"
    /\ \E content \in {fs[call.file_path]} :
       \E c0 \in {ExtractStage(call, content)} :
       \E env \in OcrEnvs(c0, content) :
       \E c1 \in {OcrStage(c0, content, env[1], env[2])} :
         IF c1.error # None THEN Finish(c1)
         ELSE \E ml \in MlEnvs(c1) :
              \E c2 \in {ClassifyStage(c1, ml)} :
              \E ner \in NerEnvs(c2) :
              \E c3 \in {EntitiesStage(c2, ner)} :
              \E tokenizerOk \in TokenizerEnvs(c3) :
              \E c4 \in {SummaryStage(c3, tokenizerOk)} :
                Finish(c4)
    /\ UNCHANGED <<fs, request, response, nCalls>>

----------------------------------------------------------------------------
(* The endpoints, after the processing call *)

\* pydantic's validation of Optional[DocumentType] in the response model
ValidDocumentType(document_type) ==
    document_type = None \/ document_type[1] \in DocumentType

\* process_document returned: upload answers with the record, extract with the
\* results; a body that fails the response model is a server error
EndpointReturn ==
    /\ pc = "return"
    /\ LET body_type == IF call.endpoint = "upload"
                        THEN documents[call.document_id].document_type
                        ELSE call.results.document_type
       IN  response' = IF ValidDocumentType(body_type)
                       THEN Response(call.endpoint, 200, "", call.results.document_id)
                       ELSE Response(call.endpoint, 500, "Internal Server Error", 0)
    /\ pc' = "idle"
    /\ call' = NoCall
    /\ UNCHANGED <<fs, documents, request, nCalls>>

\* process_document raised in the try block: upload wraps the exception in an HTTP
\* 500, extract lets it through to the framework, which answers 500
EndpointRaise ==
    /\ pc = "raise"
    /\ response' = IF call.endpoint = "upload"
                   THEN Response("upload", 500, "Processing failed", 0)
                   ELSE Response("extract", 500, "Internal Server Error", 0)
    /\ pc' = "idle"
    /\ call' = NoCall
    /\ UNCHANGED <<fs, documents, request, nCalls>>

----------------------------------------------------------------------------
(* The endpoints that only read: they answer the client from the map and the
   directory and assign nothing *)

\* GET /documents: the records, at most `limit` of them from `skip` on
ListDocuments ==
    /\ pc = "idle"
    /\ Response("list", 200, "", 0).code = 200
    /\ UNCHANGED vars

\* the answer of GET /documents/{id}, /documents/{id}/text, /documents/{id}/entities
GetDocumentResponse(endpoint, d) ==
    IF d \in DOMAIN documents
    THEN Response(endpoint, 200, "", d)
    ELSE Response(endpoint, 404, "Document not found", d)

GetDocument(endpoint, d) ==
    /\ pc = "idle"
    /\ GetDocumentResponse(endpoint, d).code \in {200, 404}
    /\ UNCHANGED vars

\* the answer of GET /documents/{id}/download
DownloadResponse(d) ==
    IF d \in DOMAIN documents /\ documents[d].file_path \in DOMAIN fs
    THEN Response("download", 200, "", d)
    ELSE Response("download", 404, "Document not found", d)

DownloadDocument(d) ==
    /\ pc = "idle"
    /\ DownloadResponse(d).code \in {200, 404}
    /\ UNCHANGED vars

\* POST /batch-process: a task that does nothing is queued for every id that exists
BatchProcessDocuments(ids) ==
    /\ pc = "idle"
    /\ Response("batch", 200, "", Cardinality(ids \cap DOMAIN documents)).code = 200
    /\ UNCHANGED vars

----------------------------------------------------------------------------
(* The endpoint that classifies a raw text, and the texts a client sends to it *)

\* wordings a client's text can hold for each rule of the classifier, or none
InvoiceWordings == { <<>>, <<"I", "n", "v", "o", "i", "c", "e">>, <<"B", "I", "L", "L", " ", "t", "o">>, <<"A", "m", "o", "u", "n", "t", " ", "D", "u", "e">> }

ContractWordings == { <<>>, <<"A", "g", "r", "e", "e", "m", "e", "n", "t">>, <<"T", "e", "r", "m", "s", " ", "A", "n", "d", " ", "C", "o", "n", "d", "i", "t", "i", "o", "n", "s">> }

ResumeWordings == { <<>>, <<"C", "V">>, <<"E", "d", "u", "c", "a", "t", "i", "o", "n">> }

ReceiptWordings == { <<>>, <<"P", "a", "y", "m", "e", "n", "t">>, <<"R", "E", "C", "E", "I", "P", "T">> }

\* a text made of one wording per rule, the later rules' wordings first, after a
\* greeting that matches no rule
ComposedText(invoice, contract, resume, receipt) ==
    <<"D", "e", "a", "r", " ", "S", "i", "r", ":", " ">> \o receipt \o <<" ">> \o resume \o <<"\n">>
        \o contract \o <<" ">> \o invoice

\* the texts sent to POST /classify: the composed ones, an empty one, a blank one
ClassifyTexts ==
    { ComposedText(i, c, r, p) : i \in InvoiceWordings, c \in ContractWordings,
                                 r \in ResumeWordings, p \in ReceiptWordings }
      \cup { <<>>, <<" ", "\n", " ">> }

\* POST /classify: the answer is what classify_document returns for the text
ClassifyText(text, ml) ==
    /\ pc = "idle"
    /\ request' = [Request("classify", <<>>, 0, 0) EXCEPT !.text = Some(text)]
    /\ response' = [Response("classify", 200, "", 0) EXCEPT
                        !.body = Some(ClassifyDocument(text, ml))]
    /\ UNCHANGED <<fs, documents, pc, call, nCalls>>

----------------------------------------------------------------------------
(* Long documents: plain-text uploads around the length at which a summary is
   made, of two to five sentences *)

\* a sentence of `length` characters: words of five letters and the closing mark
Sentence(length, mark) ==
    [i \in 1..(length - 1) |-> IF i % 6 = 0 THEN " " ELSE "a"] \o <<mark>>

\* two sentences, 501 characters
TwoSentenceText == Sentence(300, ".") \o <<" ">> \o Sentence(200, "!")

\* three sentences and a trailing newline, 520 characters
ThreeSentenceText ==
    Sentence(200, "?") \o <<"\n">> \o Sentence(200, ".") \o <<" ", " ">>
        \o Sentence(116, ".") \o <<"\n">>

\* four sentences, 500 characters: not long enough for a summary
FourSentenceText500 ==
    Sentence(150, ".") \o <<" ">> \o Sentence(150, "!") \o <<" ">>
        \o Sentence(100, "?") \o <<" ">> \o Sentence(97, ".")

\* four sentences parted by a newline, two blanks and a blank, 501 characters
FourSentenceText ==
    Sentence(150, ".") \o <<"\n">> \o Sentence(150, "!") \o <<" ", " ">>
        \o Sentence(100, "?") \o <<" ">> \o Sentence(97, ".")

\* five sentences, 604 characters
FiveSentenceText ==
    Sentence(120, ".") \o <<" ">> \o Sentence(120, ".") \o <<"\n">>
        \o Sentence(120, "!") \o <<" ">> \o Sentence(120, ".") \o <<" ">>
        \o Sentence(120, "?")

LongTexts ==
    {TwoSentenceText, ThreeSentenceText, FourSentenceText500, FourSentenceText,
     FiveSentenceText}

\* the uploads of long documents
LongUploads ==
    { Upload(<<"l", "o", "n", "g", ".", "t", "x", "t">>,
             FileContent("text", Len(text), text, <<>>)) : text \in LongTexts }

----------------------------------------------------------------------------
Next ==
    \/ \E u \in Uploads, o \in SaveOutcomes : UploadDocument(u, o)
    \/ \E d \in RequestIds, o \in SaveOutcomes : ExtractFromDocument(d, o)
    \/ ProcessDocument
    \/ EndpointReturn
    \/ EndpointRaise
    \/ ListDocuments
    \/ \E e \in {"get", "text", "entities"}, d \in RequestIds : GetDocument(e, d)
    \/ \E d \in RequestIds : DownloadDocument(d)
    \/ \E ids \in SUBSET RequestIds : BatchProcessDocuments(ids)

Spec == Init /\ [][Next]_vars

\* the raw-text endpoint alone: it reads and writes nothing the other endpoints use
NextText == \E text \in ClassifyTexts, ml \in MlOutcomes : ClassifyText(text, ml)

SpecText == Init /\ [][NextText]_vars

\* the uploads of long documents and their processing
NextLong ==
    \/ \E u \in LongUploads, o \in SaveOutcomes : UploadDocument(u, o)
    \/ ProcessDocument
    \/ EndpointReturn
    \/ EndpointRaise

\* the service when every request but the last of a run was an upload refused
\* for its type: nothing is stored, and one request is left
InitLong ==
    /\ fs = Put(EmptyMap, StalePath, StaleFile)
    /\ documents = EmptyMap
    /\ pc = "idle"
    /\ call = NoCall
    /\ request = Request("upload", <<"r", "u", "n", ".", "e", "x", "e">>, 512, 0)
    /\ response = Response("upload", 400, "File type not allowed", 0)
    /\ nCalls = MaxCalls - 1

SpecLong == InitLong /\ [][NextLong]_vars

----------------------------------------------------------------------------
(* Properties.  A step of an upload is recognised by pc = "idle" and
   request'.endpoint = "upload": the only steps taken from idle that change the
   state are those of the upload and re-extract endpoints. *)

\* C1, as the code has it: a processing call stores its record with status
\* processing (never pending); the record stays in processing only while its call
\* runs, leaves it by the step that ends the call and is then completed or failed;
\* a completed or failed record never changes status again, and no record is ever
\* removed.
C1_StatusLifecycle ==
    [][/\ \A d \in DOMAIN documents' \ DOMAIN documents :
            /\ documents'[d].processing_status = "processing"
            /\ pc' = "process"
            /\ call'.document_id = d
       /\ \A d \in DOMAIN documents :
            /\ d \in DOMAIN documents'
            /\ documents[d].processing_status \in {"completed", "failed"}
                  => documents'[d].processing_status = documents[d].processing_status
            /\ documents[d].processing_status \notin {"completed", "failed"}
                  => /\ pc = "process"
                     /\ call.document_id = d
                     /\ pc' # "process"
                     /\ documents'[d].processing_status \in {"completed", "failed"}]_vars

\* C1's case: calls have ended, one with a completed record and one with a failed one
C1_BothTerminalStatuses ==
    /\ pc = "idle"
    /\ \E d, e \in DOMAIN documents :
          /\ documents[d].processing_status = "completed"
          /\ documents[e].processing_status = "failed"

\* C1 as stated: the record is first stored with status pending, goes from pending
\* to processing, from processing to completed or failed, and then stays
C1_StoredPendingFirst ==
    [][/\ \A d \in DOMAIN documents' \ DOMAIN documents :
            documents'[d].processing_status = "pending"
       /\ \A d \in DOMAIN documents \cap DOMAIN documents' :
            \/ documents'[d].processing_status = documents[d].processing_status
            \/ /\ documents[d].processing_status = "pending"
               /\ documents'[d].processing_status = "processing"
            \/ /\ documents[d].processing_status = "processing"
               /\ documents'[d].processing_status \in {"completed", "failed"}]_vars

\* C2: an upload whose lower-cased extension is not in ALLOWED_EXTENSIONS is answered
\* with 400 and nothing else happens: no file is written, no record is added and no
\* processing call starts; an upload whose lower-cased extension is allowed is not
\* refused for its type.
C2_UnsupportedTypeRejected ==
    [][(pc = "idle" /\ request'.endpoint = "upload")
          => IF Lower(SplitExt(request'.filename)[2]) \notin ALLOWED_EXTENSIONS
             THEN /\ response'.code = 400
                  /\ fs' = fs
                  /\ documents' = documents
                  /\ pc' = "idle"
                  /\ call' = NoCall
             ELSE response'.detail # "File type not allowed"]_vars

\* C2's case: an upload of a type that is not allowed was refused while records exist
C2_TypeRefused ==
    /\ request.endpoint = "upload"
    /\ Lower(SplitExt(request.filename)[2]) \notin ALLOWED_EXTENSIONS
    /\ response.code = 400
    /\ DOMAIN documents # {}

\* C3: an upload of more than MAX_FILE_SIZE bytes is answered with 400 and nothing
\* else happens (no file, no record, no processing call); an upload of an allowed
\* type of at most MAX_FILE_SIZE bytes is never answered with 400.
C3_OversizedRejected ==
    [][(pc = "idle" /\ request'.endpoint = "upload")
          => /\ request'.size > MAX_FILE_SIZE
                   => /\ response'.code = 400
                      /\ fs' = fs
                      /\ documents' = documents
                      /\ pc' = "idle"
                      /\ call' = NoCall
             /\ ( /\ request'.size <= MAX_FILE_SIZE
                  /\ Lower(SplitExt(request'.filename)[2]) \in ALLOWED_EXTENSIONS )
                   => response'.code # 400]_vars

\* C3's case: a file of exactly MAX_FILE_SIZE bytes was stored, and an upload of an
\* allowed type one byte larger was refused
C3_LimitStoredLargerRefused ==
    /\ request.endpoint = "upload"
    /\ request.size = MAX_FILE_SIZE + 1
    /\ Lower(SplitExt(request.filename)[2]) \in ALLOWED_EXTENSIONS
    /\ response.code = 400
    /\ \E d \in DOMAIN documents : documents[d].file_size = MAX_FILE_SIZE

\* the k-th name save_file tries for a declared filename: the name itself, then
\* name_1.ext, name_2.ext, ...
C4_Candidate(filename, k) ==
    IF k = 0 THEN UPLOAD_DIR \o <<"/">> \o filename
    ELSE UPLOAD_DIR \o <<"/">> \o SplitExt(filename)[1] \o <<"_">> \o ToStr(k)
                    \o SplitExt(filename)[2]

\* the declared filename of the processing call a step starts
C4_DeclaredName ==
    IF request'.endpoint = "upload" THEN request'.filename
    ELSE documents[request'.document_id].filename

\* C4: no step changes or removes a file that exists; a file that appears is stored
\* under the declared name if that path was free, else under name_k.ext for the
\* smallest k >= 1 whose path was free; a new record's path is the new file's, and
\* all records have pairwise distinct stored paths.
C4_SaveNeverOverwrites ==
    [][/\ \A p \in DOMAIN fs : p \in DOMAIN fs' /\ fs'[p] = fs[p]
       /\ \A p \in DOMAIN fs' \ DOMAIN fs :
             \E k \in 0..Cardinality(DOMAIN fs) :
                /\ p = C4_Candidate(C4_DeclaredName, k)
                /\ \A j \in 0..(k - 1) : C4_Candidate(C4_DeclaredName, j) \in DOMAIN fs
       /\ \A d \in DOMAIN documents' \ DOMAIN documents :
             documents'[d].file_path \in DOMAIN fs' \ DOMAIN fs
       /\ \A d, e \in DOMAIN documents' :
             d # e => documents'[d].file_path # documents'[e].file_path]_vars

\* C4's case: the same filename was stored twice, the second time under name_2.ext
\* because name.ext and name_1.ext were taken
C4_SecondSuffixUsed ==
    \E d, e \in DOMAIN documents :
       /\ d # e
       /\ documents[d].filename = documents[e].filename
       /\ documents[d].file_path = C4_Candidate(documents[d].filename, 0)
       /\ documents[e].file_path = C4_Candidate(documents[e].filename, 2)

\* C5 as stated: no record is ever removed, only an upload adds a record, and a
\* re-extract of id D that succeeds answers with a result whose document_id is D.
C5_RecordsCreatedOnlyByUpload ==
    [][/\ DOMAIN documents \subseteq DOMAIN documents'
       /\ DOMAIN documents' # DOMAIN documents => request'.endpoint = "upload"
       /\ (pc = "return" /\ call.endpoint = "extract" /\ response'.code = 200)
             => response'.document_id = call.request_id]_vars

\* C6 as stated: when a processing call ends, OCR has run if and only if perform_ocr
\* is true or the text extracted from the file has fewer than 50 characters after
\* strip().
C6_OcrIffRequestedOrShortText ==
    pc \in {"return", "raise"}
       => ( call.ocr_calls # <<>>
              <=> \/ call.flags.perform_ocr
                  \/ /\ call.flags.extract_text
                     /\ Len(Strip(ExtractText(call.file_path, fs[call.file_path])))
                           < OCR_THRESHOLD )

\* a step of an upload or re-extract that is not refused (400, 404) and starts no
\* processing: save_file raised
C7_SaveFailed ==
    /\ pc = "idle"
    /\ pc' = "idle"
    /\ nCalls' # nCalls
    /\ response'.code \notin {400, 404}

\* C7, as the code has it: when a step of the try block raises, the call's record
\* is failed with the error text in its metadata, and the endpoint (upload or
\* re-extract) answers 500 leaving the records as they are; when save_file raises,
\* the endpoint answers 500 and no record is added or changed; a record is failed
\* exactly if its metadata holds an error.
C7_FailureRecordedAndReported ==
    [][/\ pc' = "raise"
            => /\ call'.error # None
               /\ documents'[call'.document_id].processing_status = "failed"
               /\ documents'[call'.document_id].metadata.error = call'.error
       /\ pc = "raise"
            => /\ response'.code = 500
               /\ response'.endpoint = call.endpoint
               /\ documents' = documents
       /\ C7_SaveFailed
            => /\ response'.code = 500
               /\ documents' = documents
       /\ \A d \in DOMAIN documents' :
             documents'[d].processing_status = "failed"
                <=> documents'[d].metadata.error # None]_vars

\* C7's case: a re-extract raised in its try block: its record is failed, with the
\* error, and the client got a 500
C7_ReextractFailed ==
    /\ pc = "idle"
    /\ request.endpoint = "extract"
    /\ response.code = 500
    /\ \E d \in DOMAIN documents :
          /\ d # request.document_id
          /\ documents[d].filename = documents[request.document_id].filename
          /\ documents[d].processing_status = "failed"
          /\ documents[d].metadata.error # None

\* C7 as stated: every processing call that ends with an exception, one raised by
\* save_file included, leaves a failed record of its own (a new one, or the one it
\* was asked to re-extract).
C7_EveryExceptionLeavesFailedRecord ==
    [][(pc = "raise" \/ C7_SaveFailed)
          => \E d \in DOMAIN documents' :
                /\ documents'[d].processing_status = "failed"
                /\ \/ pc = "raise" /\ d = call.document_id
                   \/ pc = "idle" /\ d \notin DOMAIN documents
                   \/ pc = "idle" /\ d = request'.document_id]_vars

\* the keyword rules in the order of their priority, with their answers
C8_Rules ==
    << [keywords |-> InvoiceKeywords,  answer |-> [type |-> "invoice",  confidence |-> 90]],
       [keywords |-> ContractKeywords, answer |-> [type |-> "contract", confidence |-> 85]],
       [keywords |-> ResumeKeywords,   answer |-> [type |-> "resume",   confidence |-> 80]],
       [keywords |-> ReceiptKeywords,  answer |-> [type |-> "receipt",  confidence |-> 85]] >>

\* C8: for a text that is not blank, classify_document answers with the type and
\* confidence of the first rule, in the order invoice, contract, resume, receipt,
\* one of whose keywords occurs in the lower-cased text; only if no rule has one
\* does the answer come from the model fallback.
C8_FirstMatchingRuleWins ==
    (response.endpoint = "classify" /\ Strip(request.text[1]) # <<>>)
       => LET text_lower == Lower(request.text[1])
              matching == {i \in 1..4 :
                              \E w \in C8_Rules[i].keywords : Contains(text_lower, w)}
              answer == response.body[1]
          IN  IF matching = {}
              THEN answer.type \notin {C8_Rules[i].answer.type : i \in 1..4}
              ELSE answer = C8_Rules[CHOOSE i \in matching :
                                        \A j \in matching : i <= j].answer

\* C8's case: a text with keywords of the contract, resume and receipt rules, the
\* receipt's first in the text, was classified as a contract
C8_SeveralRulesMatch ==
    /\ response.endpoint = "classify"
    /\ response.body[1] = [type |-> "contract", confidence |-> 85]
    /\ ~AnyKeyword(Lower(request.text[1]), InvoiceKeywords)
    /\ AnyKeyword(Lower(request.text[1]), ResumeKeywords)
    /\ AnyKeyword(Lower(request.text[1]), ReceiptKeywords)

\* C9 as stated: a processing call on a .txt file with extract_text true and
\* perform_ocr false completes with the file's text as text_content, and the OCR
\* engine is not invoked on a file that is neither a PDF nor an image.
C9_PlainTextReadVerbatim ==
    /\ ( /\ pc \in {"return", "raise"}
         /\ EndsWith(Lower(call.filename), <<".", "t", "x", "t">>)
         /\ call.flags.extract_text
         /\ ~call.flags.perform_ocr )
          => /\ pc = "return"
             /\ call.results.text_content = Some(fs[call.file_path].text)
    /\ ( /\ pc \in {"return", "raise"}
         /\ fs[call.file_path].kind \notin {"pdf", "image"} )
          => call.ocr_log = <<>>

\* C10, as the code has it: the result's key_value_pairs is the output of the
\* key-value regexes on the text exactly when entity extraction was requested, the
\* text is not empty and the document was classified as invoice, receipt or form;
\* in every other case it is empty.
C10_KeyValuePairsWhenEntitiesRequested ==
    pc = "return"
       => call.results.key_value_pairs =
             IF /\ call.flags.extract_entities
                /\ call.results.text_content # None
                /\ call.results.text_content[1] # <<>>
                /\ call.results.document_type # None
                /\ call.results.document_type[1] \in {"invoice", "receipt", "form"}
             THEN ExtractKeyValuePairs(call.results.text_content[1])
             ELSE [k \in {} |-> <<>>]

\* C10's case: an invoice's four fields were extracted
C10_InvoiceFieldsExtracted ==
    /\ pc = "return"
    /\ call.results.document_type = Some("invoice")
    /\ DOMAIN call.results.key_value_pairs = {"date", "total", "invoice_number", "tax"}
    /\ call.results.key_value_pairs["total"] = 
          <<"T", "o", "t", "a", "l", ":", " ", "$", "1", ",", "2", "5", "0", ".", "5", "0">>

\* C10 as stated: key_value_pairs is the output of the key-value regexes whenever
\* the document was classified as invoice, receipt or form, and empty otherwise.
C10_KeyValuePairsOfStructuredTypes ==
    pc = "return"
       => call.results.key_value_pairs =
             IF /\ call.results.document_type # None
                /\ call.results.document_type[1] \in {"invoice", "receipt", "form"}
             THEN ExtractKeyValuePairs(call.results.text_content[1])
             ELSE [k \in {} |-> <<>>]

\* C11: a processing call that returns has a summary exactly when its final
\* text_content is longer than 500 characters, and none otherwise; the summary
\* is the text itself when the text has at most three sentences, and otherwise
\* its first three sentences in their order, joined by single blanks.
C11_SummaryOfLongTextOnly ==
    pc = "return"
       => LET text == call.results.text_content
          IN  IF text # None /\ Len(text[1]) > 500
              THEN LET sentences == SentTokenize(Strip(text[1]), 1, 1)
                   IN  call.results.summary =
                          Some(IF Len(sentences) <= 3 THEN text[1]
                               ELSE sentences[1] \o <<" ">> \o sentences[2]
                                        \o <<" ">> \o sentences[3])
              ELSE call.results.summary = None

\* C11's case: a text of 501 characters and four sentences was summarized to
\* its first three sentences
C11_FirstThreeSentencesReturned ==
    /\ pc = "return"
    /\ call.results.text_content = Some(FourSentenceText)
    /\ call.results.summary =
          Some(Sentence(150, ".") \o <<" ">> \o Sentence(150, "!") \o <<" ">>
                   \o Sentence(100, "?"))

\* C12 as stated: an OCR failure is never retried.  Within one processing call
\* the OCR engine is invoked at most once for any image or PDF page, and no
\* OCR invocation follows the first one that failed.
C12_OcrFailureNotRetried ==
    pc \in {"return", "raise"}
       => /\ \A i, j \in DOMAIN call.ocr_log :
                i # j => call.ocr_log[i][1] # call.ocr_log[j][1]
          /\ \A i \in DOMAIN call.ocr_log :
                call.ocr_log[i][2] = "fail" => i = Len(call.ocr_log)

\* C13 as stated: when extract_text_from_pdf returns for a PDF of n pages, its
\* result has exactly n entries, numbered 1..n in increasing order, one per page
\* and none repeated, each with the page's native text or its OCR text.
C13_OneEntryPerPdfPage ==
    (pc = "return" /\ call.ocr_calls = <<"pdf">>)
       => LET pdf == fs[call.file_path].pages
              pages == call.results.pages
          IN  /\ Len(pages) = Len(pdf)
              /\ \A i \in DOMAIN pages :
                    /\ pages[i].page_number = i
                    /\ i \in DOMAIN pdf
                          => pages[i].text \in {pdf[i].native, Strip(pdf[i].ocr)}

\* C14 as stated: after any processing call the document_type stored on the
\* record and the one in the returned result are unset or one of the declared
\* document types, whatever the classification came from.
C14_DocumentTypeDeclared ==
    /\ \A d \in DOMAIN documents :
          \/ documents[d].document_type = None
          \/ documents[d].document_type[1] \in DocumentType
    /\ pc = "return"
          => \/ call.results.document_type = None
             \/ call.results.document_type[1] \in DocumentType

\* C15: a processing call with extract_text false extracts no text and runs no
\* OCR, classification, entity extraction, key-value extraction or summary,
\* whatever its other flags are: it returns a result whose text_content,
\* entities, document_type, confidence and summary are null, and its record
\* ends completed.
C15_NothingRunsWithoutExtractText ==
    (pc \in {"return", "raise"} /\ ~call.flags.extract_text)
       => /\ pc = "return"
          /\ call.ocr_calls = <<>>
          /\ call.ocr_log = <<>>
          /\ call.results.text_content = None
          /\ call.results.entities = None
          /\ call.results.document_type = None
          /\ call.results.confidence = None
          /\ call.results.summary = None
          /\ call.results.pages = <<>>
          /\ DOMAIN call.results.key_value_pairs = {}
          /\ documents[call.document_id].processing_status = "completed"
          /\ documents[call.document_id].document_type = None

\* C15's case: a scanned image was processed with every flag but extract_text set
C15_OtherFlagsSetOnImage ==
    /\ pc = "return"
    /\ ~call.flags.extract_text
    /\ call.flags.perform_ocr
    /\ call.flags.classify_document
    /\ call.flags.extract_entities
    /\ fs[call.file_path].kind = "image"
    /\ documents[call.document_id].processing_status = "completed"

============================================================================
